---------------------------- MODULE Spec2Model ----------------------------
(***************************************************************************)
(* A model of src/variable.py: the readers, the validator, the aggregator, *)
(* the classifier, the DataSet class, save_report and main.                *)
(*                                                                         *)
(* A Python str is a sequence of one-character strings, so that strip,     *)
(* the split of a CSV line, float() and sorted() are computed, not looked  *)
(* up.  A Python float is a record [k, n, d]: k = "fin" is the rational    *)
(* n/d in lowest terms (d > 0), and k = "nan", "inf", "ninf" are the IEEE  *)
(* special values.  Rounding and overflow of finite values are not         *)
(* modelled: the finite values of the model are small decimals.            *)
(***************************************************************************)
EXTENDS Integers, Sequences, FiniteSets, TLC

(***************************************************************************)
(* Bounds of the model.                                                    *)
(***************************************************************************)
\* The longest numeric file the environment offers load_data, in lines.
MaxLines == 1
\* The longest token sequence handed to validate_numerical_data directly.
MaxTokens == 3

(***************************************************************************)
(* Characters and strings.                                                 *)
(***************************************************************************)
\* The characters of the model, in ASCII order.
Chars ==
  << " ", "+", ",", "-", ".",
     "0", "1", "2", "3", "4", "5", "6", "7", "8", "9",
     "A", "B", "C", "E", "F", "I", "M", "N", "P", "S", "T", "Y", "_",
     "a", "b", "c", "d", "e", "f", "g", "h", "i", "l", "m", "n", "o", "p",
     "r", "s", "t", "u", "v", "x", "y" >>

\* The rank of every character in ASCII order.
CharCode == [c \in {Chars[i] : i \in 1..Len(Chars)} |->
               CHOOSE i \in 1..Len(Chars) : Chars[i] = c]

Digits == <<"0", "1", "2", "3", "4", "5", "6", "7", "8", "9">>

DigitSet == {Digits[i] : i \in 1..Len(Digits)}

IsDigit(c) == c \in DigitSet

\* The value of every digit.
DigitVal == [c \in DigitSet |-> (CHOOSE i \in 1..Len(Digits) : Digits[i] = c) - 1]

UpperLetters == <<"A", "B", "C", "E", "F", "I", "M", "N", "P", "S", "T", "Y">>

LowerLetters == <<"a", "b", "c", "e", "f", "i", "m", "n", "p", "s", "t", "y">>

\* str.lower on every upper-case letter.
LowerOf == [c \in {UpperLetters[i] : i \in 1..Len(UpperLetters)} |->
              LowerLetters[CHOOSE i \in 1..Len(UpperLetters) : UpperLetters[i] = c]]

\* str.lower on one character.
LowerChar(c) == IF c \in DOMAIN LowerOf THEN LowerOf[c] ELSE c

LowerStr(s) == [i \in 1..Len(s) |-> LowerChar(s[i])]

\* str.strip(): leading and trailing whitespace removed.
RECURSIVE LStrip(_)
LStrip(s) ==
  IF s # <<>> /\ Head(s) = " " THEN LStrip(Tail(s)) ELSE s

RECURSIVE RStrip(_)
RStrip(s) ==
  IF s # <<>> /\ s[Len(s)] = " " THEN RStrip(SubSeq(s, 1, Len(s) - 1)) ELSE s

Strip(s) == RStrip(LStrip(s))

\* The position of the first character of seps in s from i on, 0 when there
\* is none.
RECURSIVE FindFrom(_, _, _)
FindFrom(s, seps, i) ==
  IF i > Len(s) THEN 0 ELSE IF s[i] \in seps THEN i ELSE FindFrom(s, seps, i + 1)

FindChar(s, sep) == FindFrom(s, {sep}, 1)

\* csv.reader on one line without quotes: the cells between the commas; an
\* empty line is the empty row.
RECURSIVE SplitCells(_)
SplitCells(line) ==
  LET p == FindChar(line, ",") IN
    IF p = 0 THEN <<line>>
    ELSE <<SubSeq(line, 1, p - 1)>> \o SplitCells(SubSeq(line, p + 1, Len(line)))

CsvRow(line) == IF line = <<>> THEN <<>> ELSE SplitCells(line)

\* s < t for two str, as Python compares them (by code point, then length).
RECURSIVE StrLess(_, _)
StrLess(s, t) ==
  IF t = <<>> THEN FALSE
  ELSE IF s = <<>> THEN TRUE
  ELSE IF Head(s) = Head(t) THEN StrLess(Tail(s), Tail(t))
  ELSE CharCode[Head(s)] < CharCode[Head(t)]

\* sorted(S) for a set of str.
RECURSIVE Sorted(_)
Sorted(S) ==
  IF S = {} THEN <<>>
  ELSE LET m == CHOOSE x \in S : \A y \in S \ {x} : StrLess(x, y)
       IN <<m>> \o Sorted(S \ {m})

(***************************************************************************)
(* Floats.                                                                 *)
(***************************************************************************)
Abs(i) == IF i < 0 THEN -i ELSE i

RECURSIVE Gcd(_, _)
Gcd(a, b) == IF b = 0 THEN a ELSE Gcd(b, a % b)

RECURSIVE Pow10(_)
Pow10(k) == IF k = 0 THEN 1 ELSE 10 * Pow10(k - 1)

\* The finite float n/d, d > 0, in lowest terms.
Fin(n, d) ==
  LET g == Gcd(Abs(n), d) IN [k |-> "fin", n |-> n \div g, d |-> d \div g]

NaN == [k |-> "nan", n |-> 0, d |-> 1]

PosInf == [k |-> "inf", n |-> 0, d |-> 1]

NegInf == [k |-> "ninf", n |-> 0, d |-> 1]

\* Python's None, the "no value" sentinel.
None == [k |-> "None", n |-> 0, d |-> 1]

\* The int 0 of `total = 0` and of `return 0`, equal to the float 0.0.
Zero == Fin(0, 1)

FNeg(a) ==
  CASE a.k = "fin" -> Fin(-a.n, a.d)
    [] a.k = "inf" -> NegInf
    [] a.k = "ninf" -> PosInf
    [] OTHER -> a

\* a + b
FAdd(a, b) ==
  CASE a.k = "nan" \/ b.k = "nan" -> NaN
    [] a.k = "fin" /\ b.k = "fin" -> Fin(a.n * b.d + b.n * a.d, a.d * b.d)
    [] a.k = "fin" -> b
    [] b.k = "fin" -> a
    [] a.k = b.k -> a
    [] OTHER -> NaN

\* a / len for an int len > 0
FDivInt(a, len) ==
  IF a.k = "fin" THEN Fin(a.n, a.d * len) ELSE a

\* a < b; every comparison with nan is false.
FLess(a, b) ==
  CASE a.k = "nan" \/ b.k = "nan" -> FALSE
    [] a.k = "fin" /\ b.k = "fin" -> a.n * b.d < b.n * a.d
    [] a.k = "ninf" -> b.k # "ninf"
    [] a.k = "fin" -> b.k = "inf"
    [] OTHER -> FALSE

\* a == b
FEq(a, b) == a.k # "nan" /\ b.k # "nan" /\ a = b

FGreater(a, b) == FLess(b, a)

\* a >= b
FGreaterEq(a, b) == FGreater(a, b) \/ FEq(a, b)

\* a <= b
FLessEq(a, b) == FLess(a, b) \/ FEq(a, b)

(***************************************************************************)
(* float(str) (line 56): surrounding whitespace is ignored; an optional    *)
(* sign; then "inf", "infinity" or "nan" in any case, or a decimal number  *)
(* with an optional fraction and an optional exponent, where single        *)
(* underscores may separate digits.  ParseFloat returns [ok, val]; ok =    *)
(* FALSE is float()'s ValueError.                                          *)
(***************************************************************************)
\* digit ("_"? digit)*
IsDigitPart(s) ==
  /\ s # <<>>
  /\ \A i \in 1..Len(s) : IsDigit(s[i]) \/ s[i] = "_"
  /\ IsDigit(s[1]) /\ IsDigit(s[Len(s)])
  /\ \A i \in 1..(Len(s) - 1) : ~(s[i] = "_" /\ s[i + 1] = "_")

\* The digits of a digit part, as sequence, without the underscores.
RECURSIVE OnlyDigits(_)
OnlyDigits(s) ==
  IF s = <<>> THEN <<>>
  ELSE IF s[1] = "_" THEN OnlyDigits(Tail(s))
  ELSE <<s[1]>> \o OnlyDigits(Tail(s))

RECURSIVE DigitsVal(_)
DigitsVal(s) ==
  IF s = <<>> THEN 0 ELSE 10 * DigitsVal(SubSeq(s, 1, Len(s) - 1)) + DigitVal[s[Len(s)]]

\* The position of the exponent marker, 0 when there is none.
ExpPos(s) == FindFrom(s, {"e", "E"}, 1)

Unsigned(s) == IF s # <<>> /\ s[1] \in {"+", "-"} THEN Tail(s) ELSE s

\* An unsigned mantissa: digitpart ["." [digitpart]] | "." digitpart
ParseMantissa(m) ==
  LET p == FindChar(m, ".")
      ip == IF p = 0 THEN m ELSE SubSeq(m, 1, p - 1)
      fp == IF p = 0 THEN <<>> ELSE SubSeq(m, p + 1, Len(m))
      ok == /\ ip # <<>> \/ fp # <<>>
            /\ ip = <<>> \/ IsDigitPart(ip)
            /\ fp = <<>> \/ IsDigitPart(fp)
      fd == OnlyDigits(fp)
  IN IF ok
     THEN [ok |-> TRUE,
           val |-> Fin(DigitsVal(OnlyDigits(ip)) * Pow10(Len(fd)) + DigitsVal(fd),
                       Pow10(Len(fd)))]
     ELSE [ok |-> FALSE, val |-> None]

\* An exponent: [sign] digit+ (underscores allowed between digits)
ParseExponent(e) ==
  LET u == Unsigned(e) IN
    IF IsDigitPart(u)
    THEN [ok |-> TRUE,
          val |-> IF e[1] = "-" THEN -DigitsVal(OnlyDigits(u)) ELSE DigitsVal(OnlyDigits(u))]
    ELSE [ok |-> FALSE, val |-> 0]

\* An unsigned finite literal.
ParseNumber(u) ==
  LET q == ExpPos(u)
      m == ParseMantissa(IF q = 0 THEN u ELSE SubSeq(u, 1, q - 1))
      e == IF q = 0 THEN [ok |-> TRUE, val |-> 0]
           ELSE ParseExponent(SubSeq(u, q + 1, Len(u)))
  IN IF m.ok /\ e.ok
     THEN [ok |-> TRUE,
           val |-> IF e.val >= 0 THEN Fin(m.val.n * Pow10(e.val), m.val.d)
                   ELSE Fin(m.val.n, m.val.d * Pow10(-e.val))]
     ELSE [ok |-> FALSE, val |-> None]

ParseFloat(s) ==
  LET t == Strip(s)
      neg == t # <<>> /\ t[1] = "-"
      u == Unsigned(t)
      w == LowerStr(u)
      r == IF w = <<"n", "a", "n">> THEN [ok |-> TRUE, val |-> NaN]
           ELSE IF w \in {<<"i", "n", "f">>, <<"i", "n", "f", "i", "n", "i", "t", "y">>}
           THEN [ok |-> TRUE, val |-> PosInf]
           ELSE ParseNumber(u)
  IN IF r.ok /\ neg THEN [ok |-> TRUE, val |-> FNeg(r.val)] ELSE r

\* s.endswith(suffix)
EndsWith(s, suffix) ==
  Len(s) >= Len(suffix) /\ SubSeq(s, Len(s) - Len(suffix) + 1, Len(s)) = suffix

(***************************************************************************)
(* Exceptions and files.                                                   *)
(***************************************************************************)
\* An exception: its class, what its message says, and the value and the
\* position the message carries (<<>> and 0 when it carries none).
Exc(type, what, value, position) ==
  [type |-> type, what |-> what, value |-> value, position |-> position]

\* No exception: the call returned.
NoExc == Exc("none", "", <<>>, 0)

\* What open(filename, 'r') finds: the file's lines (st = "ok"), no file
\* (st = "missing"), or a file that cannot be opened or decoded (st = "unreadable").
File(lines) == [st |-> "ok", lines |-> lines]

MissingFile == [st |-> "missing", lines |-> <<>>]

UnreadableFile == [st |-> "unreadable", lines |-> <<>>]

\* The exception open() and the iteration over the file raise, if any.
OpenError(file) ==
  CASE file.st = "missing" -> Exc("FileNotFoundError", "No such file or directory", <<>>, 0)
    [] file.st = "unreadable" -> Exc("OSError", "cannot read", <<>>, 0)
    [] OTHER -> NoExc

(***************************************************************************)
(* 1. Readers (lines 7-43).                                                *)
(***************************************************************************)
\* Lines 17-19: the non-blank cells of one row, stripped.
RECURSIVE RowValues(_)
RowValues(row) ==
  IF row = <<>> THEN <<>>
  ELSE IF Strip(Head(row)) # <<>> THEN <<Strip(Head(row))>> \o RowValues(Tail(row))
  ELSE RowValues(Tail(row))

\* Lines 14-19: the .csv branch.
RECURSIVE CsvValues(_)
CsvValues(lines) ==
  IF lines = <<>> THEN <<>>
  ELSE RowValues(CsvRow(Head(lines))) \o CsvValues(Tail(lines))

\* Lines 22-25 and 37-40: one stripped value per non-blank line.
RECURSIVE LineValues(_)
LineValues(lines) ==
  IF lines = <<>> THEN <<>>
  ELSE IF Strip(Head(lines)) # <<>> THEN <<Strip(Head(lines))>> \o LineValues(Tail(lines))
  ELSE LineValues(Tail(lines))

\* read_numerical_data(filename), with what open() finds: [raised, ret].
read_numerical_data(filename, file) ==
  LET e == OpenError(file) IN
    CASE e.type = "none" ->
           [raised |-> NoExc,
            ret |-> IF EndsWith(filename, <<".", "c", "s", "v">>)
                    THEN CsvValues(file.lines) ELSE LineValues(file.lines)]
      [] e.type = "FileNotFoundError" ->
           [raised |-> Exc("FileNotFoundError", "Error: File not found", filename, 0),
            ret |-> <<>>]
      [] OTHER ->
           [raised |-> Exc("Exception", "Error reading file", <<>>, 0), ret |-> <<>>]

\* read_categorical_data(filename), with what open() finds: [raised, ret].
read_categorical_data(filename, file) ==
  LET e == OpenError(file) IN
    CASE e.type = "none" -> [raised |-> NoExc, ret |-> LineValues(file.lines)]
      [] e.type = "FileNotFoundError" ->
           [raised |-> Exc("FileNotFoundError", "Error: File not found", filename, 0),
            ret |-> <<>>]
      [] OTHER -> [raised |-> e, ret |-> <<>>]

(***************************************************************************)
(* 2. Validator (lines 48-61).                                             *)
(***************************************************************************)
\* A validator loop that goes on after a failure and reports the last
\* non-numeric token, not the first.
ValidateFromReportingLast(data, i, validated_data) ==
  LET bad == {j \in i..Len(data) : ~ParseFloat(data[j]).ok}
      position == CHOOSE j \in bad : \A k \in bad : k <= j
  IN IF bad = {}
     THEN [raised |-> NoExc,
           ret |-> validated_data \o [j \in 1..(Len(data) - i + 1) |->
                                       ParseFloat(data[i + j - 1]).val]]
     ELSE [raised |-> Exc("ValueError", "Error: Invalid non-numeric value",
                          data[position], position),
           ret |-> <<>>]

\* Lines 54-61: the loop from position i on, validated_data so far.
RECURSIVE ValidateFrom(_, _, _)
ValidateFrom(data, i, validated_data) ==
  IF i > Len(data) THEN [raised |-> NoExc, ret |-> validated_data]
  ELSE LET num == ParseFloat(data[i]) IN
         IF num.ok THEN ValidateFrom(data, i + 1, Append(validated_data, num.val))
         ELSE [raised |-> Exc("ValueError", "Error: Invalid non-numeric value", data[i], i),
               ret |-> <<>>]

\* validate_numerical_data(data): [raised, ret]; ret is <<>> when it raises.
validate_numerical_data(data) ==
  IF data = <<>>
  THEN [raised |-> Exc("ValueError", "Error: File is empty", <<>>, 0), ret |-> <<>>]
  ELSE ValidateFrom(data, 1, <<>>)

(***************************************************************************)
(* 3. Aggregator (lines 66-98).                                            *)
(***************************************************************************)
RECURSIVE TotalFrom(_, _)
TotalFrom(data, total) ==
  IF data = <<>> THEN total ELSE TotalFrom(Tail(data), FAdd(total, Head(data)))

calculate_total(data) == TotalFrom(data, Zero)

calculate_average(data) ==
  IF data = <<>> THEN Zero ELSE FDivInt(calculate_total(data), Len(data))

RECURSIVE MinFrom(_, _)
MinFrom(rest, minimum) ==
  IF rest = <<>> THEN minimum
  ELSE MinFrom(Tail(rest), IF FLess(Head(rest), minimum) THEN Head(rest) ELSE minimum)

calculate_minimum(data) ==
  IF data = <<>> THEN None ELSE MinFrom(Tail(data), data[1])

RECURSIVE MaxFrom(_, _)
MaxFrom(rest, maximum) ==
  IF rest = <<>> THEN maximum
  ELSE MaxFrom(Tail(rest), IF FGreater(Head(rest), maximum) THEN Head(rest) ELSE maximum)

calculate_maximum(data) ==
  IF data = <<>> THEN None ELSE MaxFrom(Tail(data), data[1])

(***************************************************************************)
(* 5. Classifier (lines 111-116) and 6. sets (lines 121-124).              *)
(***************************************************************************)
\* A classifier whose boundary is exclusive.
evaluate_performance_strict(average, threshold) ==
  IF FGreater(average, threshold) THEN "High Performance" ELSE "Needs Improvement"

evaluate_performance(average, threshold) ==
  IF FGreaterEq(average, threshold) THEN "High Performance" ELSE "Needs Improvement"

\* The default threshold.
DefaultThreshold == 75

\* A count of the categories with their repetitions.
get_unique_categories_counting_all(categories) ==
  [set |-> {categories[i] : i \in 1..Len(categories)}, count |-> Len(categories)]

get_unique_categories(categories) ==
  LET unique_categories == {categories[i] : i \in 1..Len(categories)}
  IN [set |-> unique_categories, count |-> Cardinality(unique_categories)]

(***************************************************************************)
(* Dictionaries: the Statistics mapping is a function from its keys.       *)
(***************************************************************************)
\* {}
EmptyDict == [key \in {} |-> 0]

\* key in d
HasKey(d, key) == key \in DOMAIN d

\* d.get(key, default)
Get(d, key, default) == IF key \in DOMAIN d THEN d[key] ELSE default

\* d[key] = value
Put(d, key, value) ==
  [x \in DOMAIN d \cup {key} |-> IF x = key THEN value ELSE d[x]]

NumericKeys == {"total", "average", "minimum", "maximum", "count", "performance"}

(***************************************************************************)
(* 7. DataSet (lines 129-197).  A method is an operator from the object    *)
(* (self) and what the method finds in the file system to the object after *)
(* the call and what the caller sees: the exception raised, the value      *)
(* returned, the files opened, the lines printed and the lines written.    *)
(***************************************************************************)
\* None as a file name (any falsy name skips the load of that file).
NoName == <<>>

\* DataSet.__init__
DataSet(numerical_file, categorical_file) ==
  [numerical_file |-> numerical_file,
   categorical_file |-> categorical_file,
   numerical_data |-> <<>>,
   categorical_data |-> <<>>,
   statistics |-> EmptyDict,
   unique_categories |-> {}]

\* What a call leaves behind.
Outcome(self, raised, ret, opened, console, written) ==
  [self |-> self, raised |-> raised, ret |-> ret, opened |-> opened,
   console |-> console, written |-> written]

\* A numeric step that empties the numeric dataset before it reads.
LoadNumericalClearing(self, numFile) ==
  LET raw_data == read_numerical_data(self.numerical_file, numFile)
      validated == validate_numerical_data(raw_data.ret)
      opened == <<self.numerical_file>>
      cleared == [self EXCEPT !.numerical_data = <<>>]
  IN IF self.numerical_file = NoName
     THEN Outcome(self, NoExc, "None", <<>>, <<>>, <<>>)
     ELSE IF raw_data.raised.type # "none"
     THEN Outcome(cleared, raw_data.raised, "None", opened, <<>>, <<>>)
     ELSE IF validated.raised.type # "none"
     THEN Outcome(cleared, validated.raised, "None", opened, <<>>, <<>>)
     ELSE Outcome([self EXCEPT !.numerical_data = validated.ret], NoExc, "None", opened,
                  << <<"Loaded numerical records", Len(validated.ret)>> >>, <<>>)

\* Lines 142-145: the numeric step of load_data.
LoadNumerical(self, numFile) ==
  LET raw_data == read_numerical_data(self.numerical_file, numFile)
      validated == validate_numerical_data(raw_data.ret)
      opened == <<self.numerical_file>>
  IN IF self.numerical_file = NoName
     THEN Outcome(self, NoExc, "None", <<>>, <<>>, <<>>)
     ELSE IF raw_data.raised.type # "none"
     THEN Outcome(self, raw_data.raised, "None", opened, <<>>, <<>>)
     ELSE IF validated.raised.type # "none"
     THEN Outcome(self, validated.raised, "None", opened, <<>>, <<>>)
     ELSE Outcome([self EXCEPT !.numerical_data = validated.ret], NoExc, "None", opened,
                  << <<"Loaded numerical records", Len(validated.ret)>> >>, <<>>)

\* Lines 148-150: the categorical step of load_data, after the numeric one.
LoadCategorical(num, catFile) ==
  LET self == num.self
      categories == read_categorical_data(self.categorical_file, catFile)
      opened == Append(num.opened, self.categorical_file)
  IN IF num.raised.type # "none" \/ self.categorical_file = NoName
     THEN num
     ELSE IF categories.raised.type # "none"
     THEN Outcome(self, categories.raised, "None", opened, num.console, <<>>)
     ELSE Outcome([self EXCEPT !.categorical_data = categories.ret], NoExc, "None", opened,
                  Append(num.console, <<"Loaded categorical records", Len(categories.ret)>>),
                  <<>>)

\* DataSet.load_data: num is the numeric step on what the first open() finds,
\* LoadNumerical(self, numFile), and catFile is what the second open() finds.
load_data(num, catFile) ==
  LET done == LoadCategorical(num, catFile)
  IN \* lines 152-154: the handler prints the error and raises it again
     IF done.raised.type # "none"
     THEN [done EXCEPT !.console = Append(@, <<"Error loading data", done.raised>>)]
     ELSE done

\* Lines 159-169: the dictionary of the numeric block.
NumericStatistics(numerical_data, threshold) ==
  [total |-> calculate_total(numerical_data),
   average |-> calculate_average(numerical_data),
   minimum |-> calculate_minimum(numerical_data),
   maximum |-> calculate_maximum(numerical_data),
   count |-> Len(numerical_data),
   performance |-> evaluate_performance(calculate_average(numerical_data), threshold)]

\* An analysis whose categorical block is not guarded.
calculate_statistics_unguarded(self, threshold) ==
  LET numeric == IF self.numerical_data # <<>>
                 THEN [self EXCEPT !.statistics =
                         NumericStatistics(self.numerical_data, threshold)]
                 ELSE self
      unique == get_unique_categories(self.categorical_data)
  IN Outcome([numeric EXCEPT
                !.unique_categories = unique.set,
                !.statistics = Put(@, "unique_categories", unique.count)],
             NoExc, "None", <<>>, <<>>, <<>>)

\* DataSet.calculate_statistics
calculate_statistics(self, threshold) ==
  LET numeric == IF self.numerical_data # <<>>
                 THEN [self EXCEPT !.statistics =
                         NumericStatistics(self.numerical_data, threshold)]
                 ELSE self
      unique == get_unique_categories(self.categorical_data)
      both == IF self.categorical_data # <<>>
              THEN [numeric EXCEPT
                      !.unique_categories = unique.set,
                      !.statistics = Put(@, "unique_categories", unique.count)]
              ELSE numeric
  IN Outcome(both, NoExc, "None", <<>>, <<>>, <<>>)

\* One formatted field of an f-string: a label, the format specification and
\* the value.
Field(label, fmt, value) == [label |-> label, fmt |-> fmt, value |-> value]

\* format(value, ".2f") raises TypeError for None.
FormatFails(field) == field.fmt = ".2f" /\ field.value = None

\* The fields before the first one whose formatting fails.
RECURSIVE Formatted(_)
Formatted(fields) ==
  IF fields = <<>> \/ FormatFails(Head(fields)) THEN <<>>
  ELSE <<Head(fields)>> \o Formatted(Tail(fields))

FormatError(fields) ==
  IF \E i \in 1..Len(fields) : FormatFails(fields[i])
  THEN Exc("TypeError", "unsupported format string passed to NoneType.__format__", <<>>, 0)
  ELSE NoExc

\* Lines 181-195: the fields display_results formats, in order.
DisplayFields(self) ==
  (IF self.numerical_data # <<>>
   THEN << Field("NUMERICAL DATA ANALYSIS:", "", ""),
           Field("Data Points", ",", Get(self.statistics, "count", 0)),
           Field("Total", ".2f", Get(self.statistics, "total", Zero)),
           Field("Average", ".2f", Get(self.statistics, "average", Zero)),
           Field("Minimum", ".2f", Get(self.statistics, "minimum", Zero)),
           Field("Maximum", ".2f", Get(self.statistics, "maximum", Zero)),
           Field("Performance", "", Get(self.statistics, "performance", "N/A")) >>
   ELSE <<>>)
  \o
  (IF self.categorical_data # <<>>
   THEN << Field("CATEGORICAL DATA ANALYSIS:", "", ""),
           Field("Total Categories", "", Len(self.categorical_data)),
           Field("Unique Categories", "", Get(self.statistics, "unique_categories", 0)) >>
        \o (IF self.unique_categories # {}
            THEN << Field("Unique Values", "", Sorted(self.unique_categories)) >>
            ELSE <<>>)
   ELSE <<>>)

\* A display that indexes the mapping, self.statistics['count'], where the
\* code uses get with a default.
display_results_indexing(self) ==
  LET fields == << Field("DATASET ANALYSIS REPORT", "", "") >> \o DisplayFields(self)
  IN IF self.numerical_data # <<>> /\ ~HasKey(self.statistics, "count")
     THEN Outcome(self, Exc("KeyError", "count", <<>>, 0), "None", <<>>, <<>>, <<>>)
     ELSE Outcome(self, FormatError(fields), "None", <<>>, Formatted(fields), <<>>)

\* DataSet.display_results
display_results(self) ==
  LET fields == << Field("DATASET ANALYSIS REPORT", "", "") >> \o DisplayFields(self)
  IN Outcome(self, FormatError(fields), "None", <<>>, Formatted(fields), <<>>)

(***************************************************************************)
(* 8. save_report (lines 202-235).                                         *)
(***************************************************************************)
\* Lines 225-226: one line per category.
RECURSIVE CategoryLines(_)
CategoryLines(sorted) ==
  IF sorted = <<>> THEN <<>>
  ELSE << Field("  - ", "", Head(sorted)) >> \o CategoryLines(Tail(sorted))

\* Lines 206-229: the fields save_report writes, one write call each.
ReportFields(statistics, unique_categories) ==
  << Field("DATASET ANALYSIS REPORT", "", ""), Field("=", "", "") >>
  \o
  (IF HasKey(statistics, "count")
   THEN << Field("NUMERICAL DATA STATISTICS:", "", ""),
           Field("-", "", ""),
           Field("Total Data Points", ",", Get(statistics, "count", 0)),
           Field("Sum", ".2f", Get(statistics, "total", Zero)),
           Field("Average", ".2f", Get(statistics, "average", Zero)),
           Field("Minimum", ".2f", Get(statistics, "minimum", Zero)),
           Field("Maximum", ".2f", Get(statistics, "maximum", Zero)),
           Field("Performance", "", Get(statistics, "performance", "N/A")) >>
   ELSE <<>>)
  \o
  (IF HasKey(statistics, "unique_categories")
   THEN << Field("CATEGORICAL DATA ANALYSIS:", "", ""),
           Field("-", "", ""),
           Field("Unique Categories", "", Get(statistics, "unique_categories", 0)) >>
        \o (IF unique_categories # {}
            THEN << Field("List of Unique Categories:", "", "") >>
                 \o CategoryLines(Sorted(unique_categories))
            ELSE <<>>)
   ELSE <<>>)
  \o
  << Field("=", "", ""), Field("Report generated by Dataset Management System", "", "") >>

\* What the file system does to one save: open(filename, 'w') fails
\* (fault = "open"), a write fails after `after` writes went through
\* (fault = "write"), or nothing fails (fault = "none").
NoFault == [fault |-> "none", after |-> 0]

OpenFault == [fault |-> "open", after |-> 0]

WriteFault(after) == [fault |-> "write", after |-> after]

\* The first n elements of s.
Prefix(s, n) == SubSeq(s, 1, IF n < Len(s) THEN n ELSE Len(s))

\* A save without the handler of lines 233-235: the error propagates.
save_report_propagating(statistics, unique_categories, filename, io) ==
  LET args == [statistics |-> statistics, unique_categories |-> unique_categories]
      error == IF io.fault = "none" THEN NoExc
               ELSE Exc("OSError", "cannot save", filename, 0)
  IN IF error.type # "none"
     THEN Outcome(args, error, "None", <<filename>>, <<>>, <<>>)
     ELSE Outcome(args, NoExc, "True", <<filename>>, << <<"Report saved to", filename>> >>,
                  <<>>)

\* save_report(statistics, unique_categories, filename) under io.  The outcome's
\* self is the pair of arguments after the call.
save_report(statistics, unique_categories, filename, io) ==
  LET args == [statistics |-> statistics, unique_categories |-> unique_categories]
      fields == ReportFields(statistics, unique_categories)
      formatted == Formatted(fields)
      error == IF io.fault = "open" THEN Exc("OSError", "cannot open", filename, 0)
               ELSE IF io.fault = "write" /\ io.after < Len(formatted)
               THEN Exc("OSError", "cannot write", filename, 0)
               ELSE FormatError(fields)
      written == IF io.fault = "open" THEN <<>>
                 ELSE IF io.fault = "write" THEN Prefix(formatted, io.after)
                 ELSE formatted
      opened == <<filename>>
  IN \* lines 233-235: every exception is caught and turned into False
     IF error.type # "none"
     THEN Outcome(args, NoExc, "False", opened, << <<"Error saving report", error>> >>, written)
     ELSE Outcome(args, NoExc, "True", opened, << <<"Report saved to", filename>> >>, written)

(***************************************************************************)
(* The state.                                                              *)
(***************************************************************************)
VARIABLES
  dataset,  \* the DataSet object
  last,     \* the last call on it: [op, arg, raised, ret, opened, console, written]
  hist,     \* history: no load_data yet (fresh), every category ever loaded (loaded)
  fs,       \* main: the two input files, [num, cat]
  pc,       \* main: the statement main is at
  trace,    \* main: the calls main made and the messages it printed, in order
  tokens,   \* the argument of a direct call of the validator or the aggregator
  call      \* that call: [fn, raised, ret]

vars == <<dataset, last, hist, fs, pc, trace, tokens, call>>

\* All sequences over S of length at most n.
SeqsUpTo(S, n) == UNION {[1..k -> S] : k \in 0..n}

\* The elements of a sequence.
Range(s) == {s[i] : i \in 1..Len(s)}

(***************************************************************************)
(* The inputs the environment offers.                                      *)
(***************************************************************************)
\* The numeric file of main, a .csv name, and a name without that extension.
NUMERICAL_FILE ==
  <<"s", "a", "m", "p", "l", "e", "_", "d", "a", "t", "a", ".", "c", "s", "v">>

TextFile == <<"d", "a", "t", "a", ".", "t", "x", "t">>

CATEGORICAL_FILE ==
  <<"c", "a", "t", "e", "g", "o", "r", "i", "e", "s", ".", "t", "x", "t">>

ReportFile ==
  <<"d", "a", "t", "a", "s", "e", "t", "_", "a", "n", "a", "l", "y", "s", "i", "s", "_",
    "r", "e", "p", "o", "r", "t", ".", "t", "x", "t">>

\* Lines of a numeric file: " 80", "70,,80" and "70,,x".
NumLines ==
  { <<" ", "8", "0">>,
    <<"7", "0", ",", ",", "8", "0">>,
    <<"7", "0", ",", ",", "x">> }

\* What open() may find under the numeric name: no file, an unreadable one,
\* or a file of at most MaxLines lines.
NumFiles == {MissingFile, UnreadableFile} \cup {File(l) : l \in SeqsUpTo(NumLines, MaxLines)}

\* What open() may find under the categorical name: no file, an unreadable
\* one, an empty file, the file "a", and the file " b", "", "a", " b".
CatFiles ==
  { MissingFile, UnreadableFile, File(<<>>), File(<< <<"a">> >>),
    File(<< <<" ", "b">>, <<>>, <<"a">>, <<" ", "b">> >>) }

\* Thresholds a caller passes: a negative one, the default, one above 100.
Thresholds == {Fin(-5, 1), Fin(DefaultThreshold, 1), Fin(150, 1)}

\* What the file system does to a save.
Faults == {NoFault, OpenFault, WriteFault(2)}

(***************************************************************************)
(* The DataSet under any caller.                                           *)
(***************************************************************************)
\* What a call leaves in last.
Called(op, arg, r) ==
  [op |-> op, arg |-> arg, raised |-> r.raised, ret |-> r.ret, opened |-> r.opened,
   console |-> r.console, written |-> r.written]

NoCall ==
  [op |-> "__init__", arg |-> None, raised |-> NoExc, ret |-> "None", opened |-> <<>>,
   console |-> <<>>, written |-> <<>>]

NoDirectCall == [fn |-> "none", raised |-> NoExc, ret |-> <<>>]

\* The files the second open() of load_data may find: it happens only after
\* the numeric step went through.
CatFilesAfter(num) ==
  IF num.raised.type = "none" /\ num.self.categorical_file # NoName
  THEN CatFiles ELSE {MissingFile}

\* dataset.load_data() when the two open() find numFile and catFile.
LoadData(numFile, num, catFile) ==
  LET r == load_data(num, catFile) IN
    /\ dataset' = r.self
    /\ last' = Called("load_data", numFile, r)
    /\ hist' = [fresh |-> FALSE, loaded |-> hist.loaded \cup Range(r.self.categorical_data)]

\* dataset.calculate_statistics(threshold)
CalculateStatistics(threshold) ==
  LET r == calculate_statistics(dataset, threshold) IN
    /\ dataset' = r.self
    /\ last' = Called("calculate_statistics", threshold, r)
    /\ hist' = hist

\* dataset.display_results()
DisplayResults ==
  LET r == display_results(dataset) IN
    /\ dataset' = r.self
    /\ last' = Called("display_results", None, r)
    /\ hist' = hist

\* save_report(dataset.statistics, dataset.unique_categories, filename) under io
SaveReport(filename, io) ==
  LET r == save_report(dataset.statistics, dataset.unique_categories, filename, io) IN
    /\ dataset' = [dataset EXCEPT !.statistics = r.self.statistics,
                                  !.unique_categories = r.self.unique_categories]
    /\ last' = Called("save_report", io, r)
    /\ hist' = hist

Init ==
  /\ dataset \in {DataSet(NUMERICAL_FILE, CATEGORICAL_FILE), DataSet(TextFile, NoName),
                  DataSet(NoName, CATEGORICAL_FILE)}
  /\ last = NoCall
  /\ hist = [fresh |-> TRUE, loaded |-> {}]
  /\ fs = [num |-> MissingFile, cat |-> MissingFile]
  /\ pc = "idle"
  /\ trace = <<>>
  /\ tokens = <<>>
  /\ call = NoDirectCall

Load ==
  /\ \E numFile \in NumFiles :
        LET num == LoadNumerical(dataset, numFile) IN
          \E catFile \in CatFilesAfter(num) : LoadData(numFile, num, catFile)
  /\ UNCHANGED <<fs, pc, trace, tokens, call>>

Calculate ==
  /\ \E threshold \in Thresholds : CalculateStatistics(threshold)
  /\ UNCHANGED <<fs, pc, trace, tokens, call>>

Display ==
  /\ DisplayResults
  /\ UNCHANGED <<fs, pc, trace, tokens, call>>

Save ==
  /\ \E io \in Faults : SaveReport(ReportFile, io)
  /\ UNCHANGED <<fs, pc, trace, tokens, call>>

Next == Load \/ Calculate \/ Display \/ Save

Spec == Init /\ [][Next]_vars

(***************************************************************************)
(* The validator and the aggregator called directly on a token sequence.   *)
(***************************************************************************)
\* Tokens: "70", "7e1", "-8.5", "x", "nan", "inf", "-inf".
Tokens ==
  { <<"7", "0">>, <<"7", "e", "1">>, <<"-", "8", ".", "5">>, <<"x">>,
    <<"n", "a", "n">>, <<"i", "n", "f">>, <<"-", "i", "n", "f">> }

InitFn ==
  /\ tokens \in SeqsUpTo(Tokens, MaxTokens)
  /\ call = NoDirectCall
  /\ dataset = DataSet(NoName, NoName)
  /\ last = NoCall
  /\ hist = [fresh |-> TRUE, loaded |-> {}]
  /\ fs = [num |-> MissingFile, cat |-> MissingFile]
  /\ pc = "idle"
  /\ trace = <<>>

\* validate_numerical_data(tokens)
CallValidate ==
  /\ call.fn = "none"
  /\ LET r == validate_numerical_data(tokens) IN
       call' = [fn |-> "validate_numerical_data", raised |-> r.raised, ret |-> r.ret]
  /\ UNCHANGED <<dataset, last, hist, fs, pc, trace, tokens>>

\* The four aggregates of the validated tokens, or of the empty sequence.
CallAggregate ==
  /\ \/ call.fn = "validate_numerical_data" /\ call.raised.type = "none"
     \/ call.fn = "none" /\ tokens = <<>>
  /\ LET data == call.ret IN
       call' = [fn |-> "aggregate", raised |-> NoExc,
                ret |-> [data |-> data,
                         total |-> calculate_total(data),
                         average |-> calculate_average(data),
                         minimum |-> calculate_minimum(data),
                         maximum |-> calculate_maximum(data)]]
  /\ UNCHANGED <<dataset, last, hist, fs, pc, trace, tokens>>

NextFn == CallValidate \/ CallAggregate

SpecFn == InitFn /\ [][NextFn]_vars

(***************************************************************************)
(* main (lines 240-301).                                                   *)
(***************************************************************************)
\* a, b, ... joined by commas.
RECURSIVE CommaJoin(_)
CommaJoin(cells) ==
  IF Len(cells) = 1 THEN cells[1] ELSE cells[1] \o <<",">> \o CommaJoin(Tail(cells))

Spaces(n) == [i \in 1..n |-> " "]

\* Lines 251-252: the sample numeric file, its second line indented.
SampleData ==
  << CommaJoin(<< <<"8", "5">>, <<"9", "2">>, <<"7", "8">>, <<"6", "5">>, <<"8", "8">>,
                  <<"9", "1">>, <<"7", "6">>, <<"8", "2">>, <<"9", "5">>, <<"7", "0">> >>),
     Spaces(24) \o
     CommaJoin(<< <<"7", "3">>, <<"8", "9">>, <<"8", "1">>, <<"6", "7">>, <<"9", "4">>,
                  <<"7", "9">>, <<"8", "6">>, <<"9", "0">>, <<"6", "8">>, <<"8", "4">> >>) >>

Mathematics == <<"M", "a", "t", "h", "e", "m", "a", "t", "i", "c", "s">>

Physics == <<"P", "h", "y", "s", "i", "c", "s">>

Chemistry == <<"C", "h", "e", "m", "i", "s", "t", "r", "y">>

Biology == <<"B", "i", "o", "l", "o", "g", "y">>

ComputerScience ==
  <<"C", "o", "m", "p", "u", "t", "e", "r", " ", "S", "c", "i", "e", "n", "c", "e">>

\* Lines 258-269: the sample categorical file, every line but the first indented.
SampleCategories ==
  << Mathematics, Spaces(8) \o Physics, Spaces(8) \o Chemistry, Spaces(8) \o Biology,
     Spaces(8) \o Mathematics, Spaces(8) \o Physics, Spaces(8) \o ComputerScience,
     Spaces(8) \o Mathematics, Spaces(8) \o Biology, Spaces(8) \o Chemistry,
     Spaces(8) \o Physics, Spaces(8) \o Mathematics >>

\* A main without the try block: it goes on to the next statement.
AfterCallGoingOn(raised, next) == next

\* Lines 276-301: where main goes after a call in the try block: to the
\* handler when the call raised, on to next otherwise.
AfterCall(raised, next) == IF raised.type # "none" THEN "except" ELSE next

InitMain ==
  /\ fs \in [num : NumFiles, cat : CatFiles]
  /\ pc = "bootstrap_numerical"
  /\ trace = <<>>
  /\ dataset = DataSet(NoName, NoName)
  /\ last = NoCall
  /\ hist = [fresh |-> TRUE, loaded |-> {}]
  /\ tokens = <<>>
  /\ call = NoDirectCall

\* Lines 249-254: the numeric file is created when there is none; open(.., 'w')
\* is outside the try block, so its failure leaves main as an exception.
BootstrapNumerical ==
  /\ pc = "bootstrap_numerical"
  /\ \E created \in BOOLEAN :
       IF fs.num.st # "missing"
       THEN pc' = "bootstrap_categorical" /\ fs' = fs
       ELSE IF created
       THEN pc' = "bootstrap_categorical" /\ fs' = [fs EXCEPT !.num = File(SampleData)]
       ELSE pc' = "raised" /\ fs' = fs
  /\ UNCHANGED <<dataset, last, hist, trace, tokens, call>>

\* Lines 256-271: the same for the categorical file.
BootstrapCategorical ==
  /\ pc = "bootstrap_categorical"
  /\ \E created \in BOOLEAN :
       IF fs.cat.st # "missing"
       THEN pc' = "construct" /\ fs' = fs
       ELSE IF created
       THEN pc' = "construct" /\ fs' = [fs EXCEPT !.cat = File(SampleCategories)]
       ELSE pc' = "raised" /\ fs' = fs
  /\ UNCHANGED <<dataset, last, hist, trace, tokens, call>>

\* Line 274
Construct ==
  /\ pc = "construct"
  /\ dataset' = DataSet(NUMERICAL_FILE, CATEGORICAL_FILE)
  /\ pc' = "load_data"
  /\ UNCHANGED <<last, hist, fs, trace, tokens, call>>

\* What main records of a call: the call, and that it raised.
Traced(op, raised) ==
  IF raised.type # "none" THEN trace \o <<op, "raised">> ELSE Append(trace, op)

\* Line 279
MainLoad ==
  /\ pc = "load_data"
  /\ LoadData(fs.num, LoadNumerical(dataset, fs.num), fs.cat)
  /\ trace' = Traced("load_data", last'.raised)
  /\ pc' = AfterCall(last'.raised, "calculate_statistics")
  /\ UNCHANGED <<fs, tokens, call>>

\* Line 283
MainCalculate ==
  /\ pc = "calculate_statistics"
  /\ CalculateStatistics(Fin(DefaultThreshold, 1))
  /\ trace' = Traced("calculate_statistics", last'.raised)
  /\ pc' = AfterCall(last'.raised, "display_results")
  /\ UNCHANGED <<fs, tokens, call>>

\* Line 287
MainDisplay ==
  /\ pc = "display_results"
  /\ DisplayResults
  /\ trace' = Traced("display_results", last'.raised)
  /\ pc' = AfterCall(last'.raised, "save_report")
  /\ UNCHANGED <<fs, tokens, call>>

\* Lines 291-295
MainSave ==
  /\ pc = "save_report"
  /\ \E io \in Faults : SaveReport(ReportFile, io)
  /\ trace' = Traced("save_report", last'.raised)
  /\ pc' = AfterCall(last'.raised, "success")
  /\ UNCHANGED <<fs, tokens, call>>

\* Lines 297-298
MainSuccess ==
  /\ pc = "success"
  /\ trace' = Append(trace, "ANALYSIS COMPLETED SUCCESSFULLY!")
  /\ pc' = "done"
  /\ UNCHANGED <<dataset, last, hist, fs, tokens, call>>

\* Lines 300-301
MainExcept ==
  /\ pc = "except"
  /\ trace' = Append(trace, "Program terminated with error")
  /\ pc' = "done"
  /\ UNCHANGED <<dataset, last, hist, fs, tokens, call>>

NextMain ==
  \/ BootstrapNumerical
  \/ BootstrapCategorical
  \/ Construct
  \/ MainLoad
  \/ MainCalculate
  \/ MainDisplay
  \/ MainSave
  \/ MainSuccess
  \/ MainExcept

SpecMain == InitMain /\ [][NextMain]_vars

(***************************************************************************)
(* The claims.                                                             *)
(***************************************************************************)
\* What float() makes of each token of Tokens, by hand; "x" is the one token
\* that is no number.
IsNumericToken(t) == t # <<"x">>

TokenValue(t) ==
  CASE t = <<"7", "0">> -> Fin(70, 1)
    [] t = <<"7", "e", "1">> -> Fin(70, 1)
    [] t = <<"-", "8", ".", "5">> -> Fin(-17, 2)
    [] t = <<"n", "a", "n">> -> NaN
    [] t = <<"i", "n", "f">> -> PosInf
    [] t = <<"-", "i", "n", "f">> -> NegInf

FirstNonNumeric(data) ==
  CHOOSE i \in 1..Len(data) :
    ~IsNumericToken(data[i]) /\ \A j \in 1..(i - 1) : IsNumericToken(data[j])

\* C1: validate_numerical_data fails with the empty-input error on the empty
\* token sequence; on a sequence with a non-numeric token it fails with the
\* invalid-value error carrying the raw string and the 1-based position of the
\* first non-numeric token, and returns nothing; on a sequence of numeric
\* tokens it returns the converted values, as many and in the same order.
C1_ValidateContract ==
  call.fn = "validate_numerical_data" =>
    IF tokens = <<>>
    THEN call.raised = Exc("ValueError", "Error: File is empty", <<>>, 0) /\ call.ret = <<>>
    ELSE IF \E i \in 1..Len(tokens) : ~IsNumericToken(tokens[i])
    THEN /\ call.raised = Exc("ValueError", "Error: Invalid non-numeric value",
                              tokens[FirstNonNumeric(tokens)], FirstNonNumeric(tokens))
         /\ call.ret = <<>>
    ELSE /\ call.raised = NoExc
         /\ Len(call.ret) = Len(tokens)
         /\ \A i \in 1..Len(tokens) : call.ret[i] = TokenValue(tokens[i])

\* C1's case: the first of two non-numeric tokens is at position 2 of 3.
C1_Witness ==
  /\ call.fn = "validate_numerical_data"
  /\ Len(tokens) = 3 /\ tokens[2] = <<"x">> /\ tokens[3] = <<"x">>
  /\ call.raised.position = 2

\* What the reader and the validator alone make of each numeric file, under
\* the two kinds of file name: the exception raised and the values returned.
NumericResults ==
  [filename \in {NUMERICAL_FILE, TextFile} |->
     [file \in NumFiles |->
        LET raw == read_numerical_data(filename, file)
            validated == validate_numerical_data(raw.ret)
        IN IF raw.raised.type # "none" THEN [raised |-> raw.raised, ret |-> <<>>]
           ELSE validated]]

\* The exception the numeric step of a load_data on numFile raises.
NumericFailure(self, numFile) ==
  IF self.numerical_file = NoName THEN NoExc
  ELSE NumericResults[self.numerical_file][numFile].raised

\* C2: a failing load_data raises the reader's or the validator's exception
\* as it is; when the numeric step fails both datasets keep their values and
\* the categorical file is not opened; when the categorical step fails the
\* numeric dataset holds the newly loaded values and the categorical dataset
\* keeps its value; load_data never changes the Statistics mapping.
C2_LoadFailureRetains ==
  [][last'.op = "load_data" =>
       LET failure == NumericFailure(dataset, last'.arg) IN
         /\ dataset'.statistics = dataset.statistics
         /\ dataset'.unique_categories = dataset.unique_categories
         /\ failure.type # "none" =>
              /\ last'.raised = failure
              /\ dataset'.numerical_data = dataset.numerical_data
              /\ dataset'.categorical_data = dataset.categorical_data
              /\ last'.opened = <<dataset.numerical_file>>
         /\ failure.type = "none" /\ last'.raised.type # "none" =>
              /\ last'.raised.type \in {"FileNotFoundError", "OSError"}
              /\ dataset'.categorical_data = dataset.categorical_data
              /\ dataset.numerical_file # NoName =>
                   dataset'.numerical_data =
                     NumericResults[dataset.numerical_file][last'.arg].ret
    ]_vars

\* C2's case: a load failed on the non-numeric second token of the file, and
\* the dataset still holds the values of an earlier load, not the valid prefix.
C2_Witness ==
  /\ last.op = "load_data"
  /\ last.raised.what = "Error: Invalid non-numeric value" /\ last.raised.position = 2
  /\ dataset.numerical_data = <<Fin(80, 1)>>
  /\ DOMAIN dataset.statistics # {}

\* C3: after calculate_statistics a Dataset with only categorical data has
\* exactly the unique_categories key, and one with only numeric data has
\* exactly the six numeric keys.
C3_OnlyOneKind ==
  last.op = "calculate_statistics" =>
    /\ dataset.numerical_data = <<>> /\ dataset.categorical_data # <<>> =>
         DOMAIN dataset.statistics = {"unique_categories"}
    /\ dataset.numerical_data # <<>> /\ dataset.categorical_data = <<>> =>
         DOMAIN dataset.statistics = NumericKeys

\* C3's case: an analysis of categorical data alone.
C3_Witness ==
  /\ last.op = "calculate_statistics"
  /\ dataset.numerical_data = <<>> /\ Len(dataset.categorical_data) = 3
  /\ HasKey(dataset.statistics, "unique_categories")

\* C4: save_report never raises, returns False when the open or a write
\* fails and True otherwise, and leaves the Statistics mapping and the
\* unique-category set it was passed as they were.
C4_SaveReportFrame ==
  [][last'.op = "save_report" =>
       /\ last'.raised = NoExc
       /\ last'.ret = IF last'.arg.fault = "none" THEN "True" ELSE "False"
       /\ dataset'.statistics = dataset.statistics
       /\ dataset'.unique_categories = dataset.unique_categories
    ]_vars

\* C4's case: a save of computed statistics failed at a write.
C4_Witness ==
  /\ last.op = "save_report" /\ last.arg.fault = "write" /\ last.ret = "False"
  /\ NumericKeys \subseteq DOMAIN dataset.statistics
  /\ dataset.unique_categories # {}

\* average >= threshold for a finite threshold, by cross-multiplication.
AtLeast(average, threshold) ==
  \/ average.k = "inf"
  \/ average.k = "fin" /\ average.n * threshold.d >= threshold.n * average.d

\* Averages to classify: 75, 74.999, -10, 200, nan, inf, -inf.
Averages ==
  {Fin(75, 1), Fin(74999, 1000), Fin(-10, 1), Fin(200, 1), NaN, PosInf, NegInf}

\* C5: evaluate_performance is "High Performance" exactly when average >=
\* threshold and "Needs Improvement" otherwise, for every threshold; and after
\* calculate_statistics(threshold) on a non-empty numeric dataset the
\* performance is the label of the average against that threshold.
C5_PerformanceLabel ==
  /\ \A average \in Averages, threshold \in Thresholds :
       evaluate_performance(average, threshold) =
         IF AtLeast(average, threshold) THEN "High Performance" ELSE "Needs Improvement"
  /\ last.op = "calculate_statistics" /\ dataset.numerical_data # <<>> =>
       dataset.statistics.performance =
         IF AtLeast(dataset.statistics.average, last.arg)
         THEN "High Performance" ELSE "Needs Improvement"

\* C5's case: the average equals the threshold, and the label is the high one.
C5_Witness ==
  /\ last.op = "calculate_statistics" /\ dataset.numerical_data # <<>>
  /\ dataset.statistics.average = last.arg
  /\ dataset.statistics.performance = "High Performance"

\* C6: on a non-empty sequence the average is the total divided by the count,
\* the minimum and the maximum are elements, and minimum <= every element <=
\* maximum; on the empty sequence the total and the average are 0 and the
\* minimum and the maximum are the no-value sentinel.
C6_AggregateContract ==
  call.fn = "aggregate" =>
    LET data == call.ret.data IN
      IF data = <<>>
      THEN /\ call.ret.total = Zero /\ call.ret.average = Zero
           /\ call.ret.minimum = None /\ call.ret.maximum = None
      ELSE /\ FEq(call.ret.average, FDivInt(call.ret.total, Len(data)))
           /\ call.ret.minimum \in Range(data)
           /\ call.ret.maximum \in Range(data)
           /\ \A i \in 1..Len(data) :
                FLessEq(call.ret.minimum, data[i]) /\ FLessEq(data[i], call.ret.maximum)

\* The value of the field of that label on the console.
FieldValue(console, label) ==
  console[CHOOSE i \in 1..Len(console) : console[i].label = label].value

\* C7: calculate_statistics and display_results never raise; on a freshly
\* constructed Dataset calculate_statistics leaves Statistics empty; and
\* display_results shows 0 or "N/A" for every field absent from Statistics.
C7_NeverFails ==
  /\ last.op \in {"calculate_statistics", "display_results"} => last.raised = NoExc
  /\ last.op = "calculate_statistics" /\ hist.fresh => DOMAIN dataset.statistics = {}
  /\ last.op = "display_results" /\ dataset.numerical_data # <<>> =>
       /\ ~HasKey(dataset.statistics, "count") => FieldValue(last.console, "Data Points") = 0
       /\ ~HasKey(dataset.statistics, "total") => FieldValue(last.console, "Total") = Zero
       /\ ~HasKey(dataset.statistics, "average") => FieldValue(last.console, "Average") = Zero
       /\ ~HasKey(dataset.statistics, "minimum") => FieldValue(last.console, "Minimum") = Zero
       /\ ~HasKey(dataset.statistics, "maximum") => FieldValue(last.console, "Maximum") = Zero
       /\ ~HasKey(dataset.statistics, "performance") =>
            FieldValue(last.console, "Performance") = "N/A"
  /\ /\ last.op = "display_results" /\ dataset.categorical_data # <<>>
     /\ ~HasKey(dataset.statistics, "unique_categories")
     => FieldValue(last.console, "Unique Categories") = 0

\* C7's case: a display of a Dataset that is loaded and not analysed.
C7_Witness ==
  /\ last.op = "display_results" /\ last.raised = NoExc
  /\ dataset.numerical_data # <<>> /\ dataset.categorical_data # <<>>
  /\ DOMAIN dataset.statistics = {}
  /\ FieldValue(last.console, "Minimum") = Zero
  /\ FieldValue(last.console, "Performance") = "N/A"

\* C8: right after calculate_statistics the numeric keys are present exactly
\* when the numeric dataset is non-empty, the unique_categories key exactly
\* when the categorical dataset is non-empty, and every value is the one
\* computed from the current datasets.
C8_StatisticsAreCurrent ==
  last.op = "calculate_statistics" =>
    /\ \A key \in NumericKeys :
         HasKey(dataset.statistics, key) <=> dataset.numerical_data # <<>>
    /\ HasKey(dataset.statistics, "unique_categories") <=> dataset.categorical_data # <<>>
    /\ dataset.numerical_data # <<>> =>
         /\ dataset.statistics.count = Len(dataset.numerical_data)
         /\ dataset.statistics.total = calculate_total(dataset.numerical_data)
         /\ dataset.statistics.average = calculate_average(dataset.numerical_data)
         /\ dataset.statistics.minimum = calculate_minimum(dataset.numerical_data)
         /\ dataset.statistics.maximum = calculate_maximum(dataset.numerical_data)
    /\ dataset.categorical_data # <<>> =>
         dataset.statistics.unique_categories =
           Cardinality(Range(dataset.categorical_data))

IsCall(e) == e \in {"load_data", "calculate_statistics", "display_results", "save_report"}

\* The calls main made, in order.
CallsMade == SelectSeq(trace, IsCall)

IsPrefix(s, t) == Len(s) <= Len(t) /\ SubSeq(t, 1, Len(s)) = s

\* C9: main calls load_data, calculate_statistics, display_results and
\* save_report in that order; a call that raises is followed by no other call
\* and by no success message, only by the handler's message; and once the
\* try block is entered main ends by returning.
C9_MainPipeline ==
  /\ IsPrefix(CallsMade,
              <<"load_data", "calculate_statistics", "display_results", "save_report">>)
  /\ \A i \in 1..Len(trace) :
       trace[i] = "raised" =>
         \/ i = Len(trace) /\ pc = "except"
         \/ i = Len(trace) - 1 /\ trace[Len(trace)] = "Program terminated with error"
                               /\ pc = "done"
  /\ (\E i \in 1..Len(trace) : trace[i] = "ANALYSIS COMPLETED SUCCESSFULLY!") =>
       /\ Len(CallsMade) = 4
       /\ \A i \in 1..Len(trace) : trace[i] # "raised"
  /\ pc = "done" =>
       trace[Len(trace)] \in {"ANALYSIS COMPLETED SUCCESSFULLY!",
                              "Program terminated with error"}
  /\ pc = "raised" => trace = <<>>

\* C9's case: the validation of the numeric file failed, and main returned
\* after the handler's message without any later call.
C9_Witness ==
  /\ pc = "done"
  /\ trace = <<"load_data", "raised", "Program terminated with error">>
  /\ last.op = "load_data" /\ last.raised.what = "Error: Invalid non-numeric value"

\* C10: whenever Statistics has the unique_categories key, its value is the
\* size of the Dataset's unique-category set; and every element of that set
\* was a category of a loaded categorical dataset.
C10_UniqueCount ==
  /\ HasKey(dataset.statistics, "unique_categories") =>
       dataset.statistics.unique_categories = Cardinality(dataset.unique_categories)
  /\ dataset.unique_categories \subseteq hist.loaded

\* C10's case: two unique categories among three loaded ones.
C10_Witness ==
  /\ HasKey(dataset.statistics, "unique_categories")
  /\ dataset.statistics.unique_categories = 2
  /\ Len(dataset.categorical_data) = 3

=============================================================================
